---- MODULE Spec2Model ----
(***************************************************************************)
(* Model of the job-script generator `begin` (the variant with JobData,    *)
(* the bare header and the templated task line).                           *)
(*                                                                         *)
(* Text is a sequence of atoms.  An atom is a non-empty chunk of           *)
(* characters that the program never splits: a literal of the source, a    *)
(* configured string, a decimal digit, a template action "{{...}}" or the  *)
(* line terminator NL.  The empty Go string is the empty sequence, and     *)
(* Go's + on strings is \o.                                                *)
(***************************************************************************)
EXTENDS Integers, Sequences, FiniteSets

(***************************************************************************)
(* Bounds of the explored input space.                                     *)
(***************************************************************************)
MaxLen == 2
MaxArgs == 1
MaxRanks == 1
MaxNodes == 2
MaxProcs == 2
MaxSeconds == 20

(***************************************************************************)
(* Program constants.                                                      *)
(***************************************************************************)
BatchPBS == "pbs"
BatchSlurm == "slurm"
BatchBare == "bare"
BatchAutodetect == "autodetect"
BatchUnsupported == "unsupported"

\* time.Duration counts nanoseconds; the model counts milliseconds, which
\* keeps the sub-second part that Round(time.Second) acts on.
Millisecond == 1
Second == 1000 * Millisecond
Minute == 60 * Second
Hour == 60 * Minute

NL == "\n"
SP == " "

(***************************************************************************)
(* Text helpers.                                                           *)
(***************************************************************************)
\* A Go string value as text: "" is the empty text.
Str(s) == IF s = "" THEN <<>> ELSE <<s>>

Digit(d) == CASE d = 0 -> "0" [] d = 1 -> "1" [] d = 2 -> "2" [] d = 3 -> "3"
              [] d = 4 -> "4" [] d = 5 -> "5" [] d = 6 -> "6" [] d = 7 -> "7"
              [] d = 8 -> "8" [] d = 9 -> "9"

\* Decimal rendering of a non-negative integer ({{.N}} on an int, %d).
RECURSIVE Itoa(_)
Itoa(n) == IF n < 10 THEN <<Digit(n)>> ELSE Itoa(n \div 10) \o <<Digit(n % 10)>>

\* fmt's %02d on a non-negative integer.
Pad2(n) == IF n < 10 THEN <<"0">> \o Itoa(n) ELSE Itoa(n)

\* strings.Join(elems, sep) where elems is a sequence of texts.
RECURSIVE Join(_, _)
Join(elems, sep) ==
    IF Len(elems) = 0 THEN <<>>
    ELSE IF Len(elems) = 1 THEN elems[1]
    ELSE elems[1] \o sep \o Join(Tail(elems), sep)

\* Round that drops the sub-second part.
Round_Truncate(d) == (d \div Second) * Second

\* Duration.Round(time.Second): to the nearest second, halves away from zero.
Round(d) == ((d + Second \div 2) \div Second) * Second

formatDuration(d0) ==
    LET d1 == Round(d0)
        h == d1 \div Hour
        d2 == d1 - h * Hour
        m == d2 \div Minute
        d3 == d2 - m * Minute
        s == d3 \div Second
    IN  Pad2(h) \o <<":">> \o Pad2(m) \o <<":">> \o Pad2(s)

\* path.Join(dir, file) for a directory without "." or ".." elements and a
\* non-empty file name: an empty directory is dropped.
PathJoin(dir, file) == IF dir = "" THEN file ELSE <<dir, "/">> \o file

(***************************************************************************)
(* Config, ExtendedConfig and the template engine.                         *)
(***************************************************************************)
\* Config{}: the zero value that toml.DecodeFile fills in.
ZeroConfig ==
    [Name |-> "", NumberOfNodes |-> 0, NodeType |-> "",
     NumberOfMPIRanksPerNode |-> 0, NumberOfOMPThreadsPerProcess |-> 0,
     Walltime |-> 0, Email |-> "", LogDirectory |-> "",
     ModulesPreScript |-> <<>>, LoadModules |-> <<>>,
     WorkingDirectory |-> "", PreScript |-> <<>>,
     RunTime |-> <<>>, Executable |-> "", Arguments |-> <<>>,
     PostScript |-> <<>>]

\* NewExtendedConfig with the tasks per node taken from the ranks per node.
NewExtendedConfig_TasksFromRanks(c) ==
    [Config |-> c,
     NumberOfTasksPerNode |-> IF c.NumberOfMPIRanksPerNode = 0 THEN 1
                              ELSE c.NumberOfMPIRanksPerNode,
     NumberOfMPIRanks |-> c.NumberOfNodes * c.NumberOfMPIRanksPerNode,
     WalltimeString |-> formatDuration(c.Walltime),
     OutputFile |-> PathJoin(c.LogDirectory, Str(c.Name) \o <<".out">>),
     ErrorFile |-> PathJoin(c.LogDirectory, Str(c.Name) \o <<".err">>)]

\* NewExtendedConfig with the ranks per node as the total rank count.
NewExtendedConfig_RanksPerNode(c) ==
    [Config |-> c,
     NumberOfTasksPerNode |-> 1,
     NumberOfMPIRanks |-> c.NumberOfMPIRanksPerNode,
     WalltimeString |-> formatDuration(c.Walltime),
     OutputFile |-> PathJoin(c.LogDirectory, Str(c.Name) \o <<".out">>),
     ErrorFile |-> PathJoin(c.LogDirectory, Str(c.Name) \o <<".err">>)]

NewExtendedConfig(c) ==
    LET cc == [Config |-> c,
               NumberOfTasksPerNode |-> 1,
               NumberOfMPIRanks |-> c.NumberOfNodes * c.NumberOfMPIRanksPerNode,
               WalltimeString |-> formatDuration(c.Walltime),
               OutputFile |-> PathJoin(c.LogDirectory, Str(c.Name) \o <<".out">>),
               ErrorFile |-> PathJoin(c.LogDirectory, Str(c.Name) \o <<".err">>)]
    IN  IF c.NumberOfMPIRanksPerNode = 0
        THEN [cc EXCEPT !.NumberOfTasksPerNode = 1]
        ELSE cc

\* Template actions that name a scalar field of ExtendedConfig.
FieldActions ==
    {"{{.Name}}", "{{.ErrorFile}}", "{{.OutputFile}}", "{{.Email}}",
     "{{.NumberOfNodes}}", "{{.NodeType}}", "{{.NumberOfMPIRanksPerNode}}",
     "{{.NumberOfOMPThreadsPerProcess}}", "{{.WalltimeString}}",
     "{{.NumberOfMPIRanks}}", "{{.NumberOfTasksPerNode}}"}

\* A well-formed action on a field that ExtendedConfig does not have:
\* it parses, and Execute fails on it.
UnknownFieldActions == {"{{.Nope}}"}

\* An action that is opened and never closed: Parse fails on any text
\* that contains it.
MalformedActions == {"{{"}

\* What Execute writes for a field action.
FieldValue(a, cc) ==
    CASE a = "{{.Name}}" -> Str(cc.Config.Name)
      [] a = "{{.ErrorFile}}" -> cc.ErrorFile
      [] a = "{{.OutputFile}}" -> cc.OutputFile
      [] a = "{{.Email}}" -> Str(cc.Config.Email)
      [] a = "{{.NumberOfNodes}}" -> Itoa(cc.Config.NumberOfNodes)
      [] a = "{{.NodeType}}" -> Str(cc.Config.NodeType)
      [] a = "{{.NumberOfMPIRanksPerNode}}" -> Itoa(cc.Config.NumberOfMPIRanksPerNode)
      [] a = "{{.NumberOfOMPThreadsPerProcess}}" ->
            Itoa(cc.Config.NumberOfOMPThreadsPerProcess)
      [] a = "{{.WalltimeString}}" -> cc.WalltimeString
      [] a = "{{.NumberOfMPIRanks}}" -> Itoa(cc.NumberOfMPIRanks)
      [] a = "{{.NumberOfTasksPerNode}}" -> Itoa(cc.NumberOfTasksPerNode)

\* template.Execute: literal atoms are copied, field actions are replaced.
RECURSIVE Execute(_, _)
Execute(ts, cc) ==
    IF Len(ts) = 0 THEN <<>>
    ELSE (IF Head(ts) \in FieldActions THEN FieldValue(Head(ts), cc)
          ELSE <<Head(ts)>>) \o Execute(Tail(ts), cc)

\* The error values are the chains of messages that %w builds, outermost
\* message first; the nil error is the empty chain.
NoError == <<>>

ExecTemplate(ts, cc) ==
    IF \E i \in 1..Len(ts) : ts[i] \in MalformedActions
    THEN [out |-> <<>>, err |-> <<"parse template">>]
    ELSE IF \E i \in 1..Len(ts) : ts[i] \in UnknownFieldActions
    THEN [out |-> <<>>, err |-> <<"execute template">>]
    ELSE [out |-> Execute(ts, cc), err |-> NoError]

\* fmt.Errorf(msg + ": %w", err)
Wrap(msg, err) == <<msg>> \o err

(***************************************************************************)
(* Header renderers.  Each returns the builder after its writes and the    *)
(* error it reports.                                                       *)
(***************************************************************************)
\* The PBS template with the total rank count in the mpiprocs sub-clause.
PBSTemplate_TotalRanks ==
    << "#!/bin/bash -l", NL,
       "#PBS -N ", "{{.Name}}", NL,
       "#PBS -e ", "{{.ErrorFile}}", NL,
       "#PBS -o ", "{{.OutputFile}}", NL,
       "#PBS -m abe", NL,
       "#PBS -M ", "{{.Email}}", NL,
       "#PBS -l select=", "{{.NumberOfNodes}}",
       ":node_type=", "{{.NodeType}}",
       ":mpiprocs=", "{{.NumberOfMPIRanks}}",
       ":ompthreads=", "{{.NumberOfOMPThreadsPerProcess}}", NL,
       "#PBS -l walltime=", "{{.WalltimeString}}", NL >>

PBSTemplate ==
    << "#!/bin/bash -l", NL,
       "#PBS -N ", "{{.Name}}", NL,
       "#PBS -e ", "{{.ErrorFile}}", NL,
       "#PBS -o ", "{{.OutputFile}}", NL,
       "#PBS -m abe", NL,
       "#PBS -M ", "{{.Email}}", NL,
       "#PBS -l select=", "{{.NumberOfNodes}}",
       ":node_type=", "{{.NodeType}}",
       ":mpiprocs=", "{{.NumberOfMPIRanksPerNode}}",
       ":ompthreads=", "{{.NumberOfOMPThreadsPerProcess}}", NL,
       "#PBS -l walltime=", "{{.WalltimeString}}", NL >>

SlurmTemplate ==
    << "#!/bin/bash -l", NL,
       "#SBATCH -J ", "{{.Name}}", NL,
       "#SBATCH -o ", "{{.OutputFile}}", NL,
       "#SBATCH -e ", "{{.ErrorFile}}", NL,
       "#SBATCH --mail-type=ALL", NL,
       "#SBATCH --mail-user=", "{{.Email}}", NL,
       "#SBATCH --nodes ", "{{.NumberOfNodes}}", NL,
       "#SBATCH --ntasks-per-node ", "{{.NumberOfTasksPerNode}}", NL,
       "#SBATCH --time=", "{{.WalltimeString}}", NL >>

BareTemplate == << "#!/bin/bash -l", NL >>

\* The common shape of the three header writers.
writeHeader(template, config, builder) ==
    LET r == ExecTemplate(template, NewExtendedConfig(config))
    IN  IF r.err # NoError
        THEN [builder |-> builder, err |-> Wrap("execute template", r.err)]
        ELSE [builder |-> builder \o r.out \o <<NL>>, err |-> NoError]

writePBSHeader(config, builder) == writeHeader(PBSTemplate, config, builder)

writeSlurmHeader(config, builder) == writeHeader(SlurmTemplate, config, builder)

\* The bare header written from the PBS template.
writeBareHeader_PBS(config, builder) == writeHeader(PBSTemplate, config, builder)

writeBareHeader(config, builder) == writeHeader(BareTemplate, config, builder)

(***************************************************************************)
(* JobData: the header for the batch system, then the body.                *)
(***************************************************************************)
\* The switch on batchSystem: a kind without a case writes nothing and
\* reports nothing.
writeSelectedHeader(config, batchSystem, builder) ==
    CASE batchSystem = BatchPBS ->
            LET r == writePBSHeader(config, builder)
            IN  [r EXCEPT !.err = IF r.err # NoError
                                  THEN Wrap("write PBS header", r.err) ELSE NoError]
      [] batchSystem = BatchSlurm ->
            LET r == writeSlurmHeader(config, builder)
            IN  [r EXCEPT !.err = IF r.err # NoError
                                  THEN Wrap("write Slurm header", r.err) ELSE NoError]
      [] batchSystem = BatchBare ->
            LET r == writeBareHeader(config, builder)
            IN  [r EXCEPT !.err = IF r.err # NoError
                                  THEN Wrap("write bare header", r.err) ELSE NoError]
      [] OTHER -> [builder |-> builder, err |-> NoError]

\* for _, cmd := range cmds { builder.WriteString(cmd + "\n") }
RECURSIVE writeLines(_, _)
writeLines(builder, cmds) ==
    IF Len(cmds) = 0 THEN builder
    ELSE writeLines(builder \o Str(Head(cmds)) \o <<NL>>, Tail(cmds))

\* for _, module := range modules { ... "module load %s\n" ... }
RECURSIVE writeModuleLoads(_, _)
writeModuleLoads(builder, modules) ==
    IF Len(modules) = 0 THEN builder
    ELSE writeModuleLoads(builder \o <<"module load ">> \o Str(Head(modules)) \o <<NL>>,
                          Tail(modules))

\* The preamble with the module loads written before the module pre-script.
writePreamble_LoadsFirst(config, builder) ==
    LET b1 == writeModuleLoads(builder, config.LoadModules) \o <<NL>>
        b2 == writeLines(b1, config.ModulesPreScript) \o <<NL>>
        b3 == writeLines(b2, config.PreScript) \o <<NL>>
    IN  b3

\* The three script groups, each followed by a blank line.
writePreamble(config, builder) ==
    LET b1 == writeLines(builder, config.ModulesPreScript) \o <<NL>>
        b2 == writeModuleLoads(b1, config.LoadModules) \o <<NL>>
        b3 == writeLines(b2, config.PreScript) \o <<NL>>
    IN  b3

\* writeCd with the blank line inside the test.
writeCd_ConditionalBlank(config, builder) ==
    IF config.WorkingDirectory # ""
    THEN builder \o <<"cd ">> \o Str(config.WorkingDirectory) \o <<NL>> \o <<NL>>
    ELSE builder

\* writeCd without the test.
writeCd_Always(config, builder) ==
    builder \o <<"cd ">> \o Str(config.WorkingDirectory) \o <<NL>> \o <<NL>>

\* The working-directory change and the blank line after it.
writeCd(config, builder) ==
    (IF config.WorkingDirectory # ""
     THEN builder \o <<"cd ">> \o Str(config.WorkingDirectory) \o <<NL>>
     ELSE builder) \o <<NL>>

MpirunTemplate == << "time mpirun -n ", "{{.NumberOfMPIRanks}}" >>

\* mpirunTask without the test of the ranks per node.
mpirunTask_Ungated(config) ==
    LET r == ExecTemplate(MpirunTemplate, NewExtendedConfig(config))
    IN  IF r.err # NoError
        THEN [task |-> <<>>, err |-> Wrap("create mpirun string", r.err)]
        ELSE [task |-> <<r.out>>, err |-> NoError]

\* The launcher element of the task: present when ranks per node are
\* requested and the rendered launcher is not empty.
mpirunTask(config) ==
    IF config.NumberOfMPIRanksPerNode > 0
    THEN LET r == ExecTemplate(MpirunTemplate, NewExtendedConfig(config))
         IN  IF r.err # NoError
             THEN [task |-> <<>>, err |-> Wrap("create mpirun string", r.err)]
             ELSE IF r.out # <<>>
             THEN [task |-> <<r.out>>, err |-> NoError]
             ELSE [task |-> <<>>, err |-> NoError]
    ELSE [task |-> <<>>, err |-> NoError]

\* A []string of the configuration as a sequence of texts.
Texts(ss) == [i \in 1..Len(ss) |-> Str(ss[i])]

\* The elements appended after the launcher, and the joined raw line.
rawTaskString(config, task0) ==
    LET task1 == IF Len(config.RunTime) > 0
                 THEN Append(task0, Join(Texts(config.RunTime), <<SP>>))
                 ELSE task0
        task2 == Append(task1, Str(config.Executable))
        task3 == IF Len(config.Arguments) > 0
                 THEN Append(task2, Join(Texts(config.Arguments), <<SP>>))
                 ELSE task2
    IN  Join(task3, <<SP>>)

\* The raw line written as it is.
taskStringResult_Raw(config, raw) == [out |-> raw, err |-> NoError]

\* The raw line substituted as a template against the derived fields.
taskStringResult(config, raw) ==
    LET r == ExecTemplate(raw, NewExtendedConfig(config))
    IN  IF r.err # NoError
        THEN [out |-> <<>>, err |-> Wrap("exec task string template", r.err)]
        ELSE r

JobData(config, batchSystem) ==
    LET h == writeSelectedHeader(config, batchSystem, <<>>)
    IN  IF h.err # NoError THEN [out |-> <<>>, err |-> h.err]
        ELSE
        LET b4 == writeCd(config, writePreamble(config, h.builder))
            mp == mpirunTask(config)
        IN  IF mp.err # NoError THEN [out |-> <<>>, err |-> mp.err]
            ELSE
            LET t == taskStringResult(config, rawTaskString(config, mp.task))
            IN  IF t.err # NoError THEN [out |-> <<>>, err |-> t.err]
                ELSE [out |-> writeLines(b4 \o t.out \o <<NL>>, config.PostScript),
                      err |-> NoError]

(***************************************************************************)
(* Inputs.                                                                 *)
(***************************************************************************)
Min(a, b) == IF a < b THEN a ELSE b

Prefix(pool, k) == SubSeq(pool, 1, Min(k, Len(pool)))

ModulesPreScriptPool == << "module purge", "module use /opt/m", "export M=1", "umask 022" >>
LoadModulesPool == << "gcc", "openmpi", "hdf5", "fftw" >>
PreScriptPool == << "export OMP_PROC_BIND=true", "", "ulimit -s unlimited", "hostname" >>
PostScriptPool == << "date", "{{.Name}}", "sync", "exit 0" >>
ArgumentsPool == << "{{.NumberOfMPIRanks}}", "--fast", "-v", "-q" >>
RunTimeChoices == { <<>>, << "valgrind", "{{.Name}}" >> }
ExecutableChoices == { "./sim", "", "{{", "{{.Nope}}" }
WorkingDirectoryChoices == { "", "/scratch" }

\* The job description of the end-to-end examples.
ExampleConfig ==
    [ZeroConfig EXCEPT !.Name = "run1", !.NumberOfNodes = 2,
                       !.NumberOfMPIRanksPerNode = 4,
                       !.NumberOfOMPThreadsPerProcess = 2,
                       !.Walltime = 3661 * Second,
                       !.Executable = "./sim", !.Arguments = << "--fast" >>]

\* Job descriptions that vary everything the body is made of.
BodyConfigs ==
    { [ExampleConfig EXCEPT
          !.NumberOfMPIRanksPerNode = r,
          !.ModulesPreScript = Prefix(ModulesPreScriptPool, k1),
          !.LoadModules = Prefix(LoadModulesPool, k2),
          !.PreScript = Prefix(PreScriptPool, k3),
          !.PostScript = Prefix(PostScriptPool, k4),
          !.WorkingDirectory = wd, !.RunTime = rt, !.Executable = exe,
          !.Arguments = Prefix(ArgumentsPool, ka)] :
        r \in 0..MaxRanks, k1 \in 0..MaxLen, k2 \in 0..MaxLen, k3 \in 0..MaxLen,
        k4 \in 0..MaxLen, wd \in WorkingDirectoryChoices, rt \in RunTimeChoices,
        exe \in ExecutableChoices, ka \in 0..MaxArgs }
    \cup { ExampleConfig }

\* The kinds handed to JobData: the three it has a case for and one it has not.
Kinds == { BatchPBS, BatchSlurm, BatchBare, "lsf" }

\* The values of the -b flag.
Flags == { BatchPBS, BatchSlurm, BatchBare, BatchAutodetect, BatchUnsupported, "lsf" }

Tools == { "qsub", "squeue", "bash" }

\* The job files run() is given: decodable ones and one that is not.
RunConfigs ==
    { ExampleConfig,
      [ExampleConfig EXCEPT !.NumberOfMPIRanksPerNode = 0, !.WorkingDirectory = "/scratch"],
      [ExampleConfig EXCEPT !.Arguments = << "{{.NumberOfMPIRanks}}" >>,
                            !.PostScript = << "date" >>],
      [ExampleConfig EXCEPT !.Executable = "{{"],
      [ExampleConfig EXCEPT !.RunTime = << "{{.Nope}}" >>] }

JobFiles == { [ok |-> TRUE, config |-> c] : c \in RunConfigs }
            \cup { [ok |-> FALSE, config |-> ZeroConfig] }

(***************************************************************************)
(* State.                                                                  *)
(***************************************************************************)
VARIABLES
    pc,           \* where run() (or the caller of JobData) stands
    args,         \* flag.Args(): <<>> or <<filename>>
    file,         \* what the named job file decodes to
    path,         \* the tools on the executable search path
    requested,    \* the value of the -b flag on the command line
    batchSystem,  \* *batchSystem: the flag's value, later the resolved kind
    config,       \* the decoded Config
    lookups,      \* the exec.LookPath calls made so far, in order
    calls,        \* the kinds JobData was called with, in order
    ret,          \* what JobData returned
    stdout,       \* the text written to standard output
    exit          \* the error chain run() returned, once it has returned

vars == << pc, args, file, path, requested, batchSystem, config, lookups, calls, ret, stdout, exit >>

NoReturn == [out |-> <<>>, err |-> NoError]

(***************************************************************************)
(* run() and main(), one action per statement that the claims tell apart.  *)
(***************************************************************************)
Init ==
    /\ pc = "parse"
    /\ args \in { <<>>, << "job.toml" >> }
    /\ file \in JobFiles
    /\ path \in SUBSET Tools
    /\ requested \in Flags
    /\ batchSystem = requested
    /\ config = ZeroConfig
    /\ lookups = <<>>
    /\ calls = <<>>
    /\ ret = NoReturn
    /\ stdout = <<>>
    /\ exit = NoError

\* flag.Parse() and the check of the positional argument.
ParseFlags ==
    /\ pc = "parse"
    /\ pc' = IF Len(args) = 0 THEN "fatal" ELSE "decode"
    /\ exit' = IF Len(args) = 0 THEN << "Job file is not specified" >> ELSE exit
    /\ UNCHANGED << args, file, path, requested, batchSystem, config, lookups, calls, ret, stdout >>

\* toml.DecodeFile(filename, &config)
Decode ==
    /\ pc = "decode"
    /\ IF file.ok
       THEN /\ config' = file.config
            /\ pc' = "resolve"
            /\ exit' = exit
       ELSE /\ config' = config
            /\ pc' = "fatal"
            /\ exit' = Wrap("decode file", << "toml" >>)
    /\ UNCHANGED << args, file, path, requested, batchSystem, lookups, calls, ret, stdout >>

\* Resolve that probes whatever the flag says.
Resolve_AlwaysProbe ==
    /\ pc = "resolve"
    /\ pc' = "lookQsub"
    /\ UNCHANGED << args, file, path, requested, batchSystem, config, lookups, calls, ret, stdout, exit >>

\* if *batchSystem == BatchAutodetect { ... }
Resolve ==
    /\ pc = "resolve"
    /\ pc' = IF batchSystem = BatchAutodetect THEN "lookQsub" ELSE "check"
    /\ UNCHANGED << args, file, path, requested, batchSystem, config, lookups, calls, ret, stdout, exit >>

\* DetectBatchSystem, first probe.
LookPathQsub ==
    /\ pc = "lookQsub"
    /\ lookups' = Append(lookups, "qsub")
    /\ IF "qsub" \in path
       THEN batchSystem' = BatchPBS /\ pc' = "check"
       ELSE batchSystem' = batchSystem /\ pc' = "lookSqueue"
    /\ UNCHANGED << args, file, path, requested, config, calls, ret, stdout, exit >>

\* DetectBatchSystem, second probe.
LookPathSqueue ==
    /\ pc = "lookSqueue"
    /\ lookups' = Append(lookups, "squeue")
    /\ IF "squeue" \in path
       THEN batchSystem' = BatchSlurm /\ pc' = "check"
       ELSE batchSystem' = batchSystem /\ pc' = "lookBash"
    /\ UNCHANGED << args, file, path, requested, config, calls, ret, stdout, exit >>

\* The detection that falls back to bare without looking for bash.
LookPathBash_NoProbe ==
    /\ pc = "lookBash"
    /\ lookups' = lookups
    /\ batchSystem' = BatchBare
    /\ pc' = "check"
    /\ UNCHANGED << args, file, path, requested, config, calls, ret, stdout, exit >>

\* DetectBatchSystem, third probe and the fallthrough.
LookPathBash ==
    /\ pc = "lookBash"
    /\ lookups' = Append(lookups, "bash")
    /\ batchSystem' = IF "bash" \in path THEN BatchBare ELSE BatchUnsupported
    /\ pc' = "check"
    /\ UNCHANGED << args, file, path, requested, config, calls, ret, stdout, exit >>

\* if *batchSystem == BatchUnsupported { return ... }
CheckUnsupported ==
    /\ pc = "check"
    /\ IF batchSystem = BatchUnsupported
       THEN pc' = "fatal" /\ exit' = << "unsupported platform" >>
       ELSE pc' = "render" /\ exit' = exit
    /\ UNCHANGED << args, file, path, requested, batchSystem, config, lookups, calls, ret, stdout >>

\* Render that goes on to print whatever JobData reported.
Render_IgnoreError ==
    /\ pc = "render"
    /\ calls' = Append(calls, batchSystem)
    /\ ret' = JobData(config, batchSystem)
    /\ pc' = "print"
    /\ UNCHANGED << args, file, path, requested, batchSystem, config, lookups, stdout, exit >>

\* jobData, err := config.JobData(*batchSystem)
Render ==
    /\ pc = "render"
    /\ calls' = Append(calls, batchSystem)
    /\ ret' = JobData(config, batchSystem)
    /\ IF ret'.err # NoError
       THEN pc' = "fatal" /\ exit' = Wrap("getting job data", ret'.err)
       ELSE pc' = "print" /\ exit' = exit
    /\ UNCHANGED << args, file, path, requested, batchSystem, config, lookups, stdout >>

\* fmt.Printf("%s\n", jobData); return nil
WriteStdout ==
    /\ pc = "print"
    /\ stdout' = stdout \o ret.out \o <<NL>>
    /\ pc' = "exit0"
    /\ UNCHANGED << args, file, path, requested, batchSystem, config, lookups, calls, ret, exit >>

\* log.Fatal: the message goes to standard error and the process exits 1.
Fatal ==
    /\ pc = "fatal"
    /\ pc' = "exit1"
    /\ UNCHANGED << args, file, path, requested, batchSystem, config, lookups, calls, ret, stdout, exit >>

Next ==
    \/ ParseFlags
    \/ Decode
    \/ Resolve
    \/ LookPathQsub
    \/ LookPathSqueue
    \/ LookPathBash
    \/ CheckUnsupported
    \/ Render
    \/ WriteStdout
    \/ Fatal

Spec == Init /\ [][Next]_vars

(***************************************************************************)
(* JobData as a function: the inputs are drawn from BodyConfigs and Kinds, *)
(* and the one action applies it.                                          *)
(***************************************************************************)
InitJobData ==
    /\ pc = "call"
    /\ args = <<>>
    /\ file = [ok |-> TRUE, config |-> ZeroConfig]
    /\ path = {}
    /\ requested \in Kinds
    /\ batchSystem = requested
    /\ config \in BodyConfigs
    /\ lookups = <<>>
    /\ calls = <<>>
    /\ ret = NoReturn
    /\ stdout = <<>>
    /\ exit = NoError

CallJobData ==
    /\ pc = "call"
    /\ calls' = Append(calls, batchSystem)
    /\ ret' = JobData(config, batchSystem)
    /\ pc' = "returned"
    /\ UNCHANGED << args, file, path, requested, batchSystem, config, lookups, stdout, exit >>

NextJobData == CallJobData

SpecJobData == InitJobData /\ [][NextJobData]_vars

(***************************************************************************)
(* JobData over job descriptions that vary everything the headers and the  *)
(* derived fields are made of.                                             *)
(***************************************************************************)
WalltimeChoices == { 0, 3661 * Second, 90000 * Second }

HeaderConfigs ==
    { [ExampleConfig EXCEPT
          !.Name = name, !.NumberOfNodes = n, !.NodeType = nt,
          !.NumberOfMPIRanksPerNode = r, !.NumberOfOMPThreadsPerProcess = t,
          !.Walltime = w, !.Email = email, !.LogDirectory = dir,
          !.Arguments = a] :
        name \in { "run1", "" }, n \in 0..MaxNodes, nt \in { "", "rome" },
        r \in 0..MaxProcs, t \in 0..MaxProcs, w \in WalltimeChoices,
        email \in { "", "me@example.org" }, dir \in { "", "logs" },
        a \in { << "--fast" >>, << "{{.NumberOfMPIRanks}}" >> } }
    \cup { ExampleConfig }

InitHeader ==
    /\ pc = "call"
    /\ args = <<>>
    /\ file = [ok |-> TRUE, config |-> ZeroConfig]
    /\ path = {}
    /\ requested \in Kinds
    /\ batchSystem = requested
    /\ config \in HeaderConfigs
    /\ lookups = <<>>
    /\ calls = <<>>
    /\ ret = NoReturn
    /\ stdout = <<>>
    /\ exit = NoError

SpecHeader == InitHeader /\ [][NextJobData]_vars

(***************************************************************************)
(* formatDuration as a function: the walltime is drawn from Durations and  *)
(* the one action formats it, as NewExtendedConfig does.                   *)
(***************************************************************************)
\* Whole seconds around the rollovers of the minute, the hour, the day and
\* the third digit of the hours, each with sub-second parts on both sides
\* of the half.
SecondChoices == (0..MaxSeconds) \cup { 59, 60, 3599, 3600, 3661, 86399, 90000, 359999 }

Durations ==
    { sec * Second + frac * Millisecond :
        sec \in SecondChoices, frac \in { 0, 499, 500, 999 } }

InitDuration ==
    /\ pc = "format"
    /\ args = <<>>
    /\ file = [ok |-> TRUE, config |-> ZeroConfig]
    /\ path = {}
    /\ requested = BatchBare
    /\ batchSystem = requested
    /\ config \in { [ZeroConfig EXCEPT !.Walltime = d] : d \in Durations }
    /\ lookups = <<>>
    /\ calls = <<>>
    /\ ret = NoReturn
    /\ stdout = <<>>
    /\ exit = NoError

\* WalltimeString: formatDuration(c.Walltime)
FormatWalltime ==
    /\ pc = "format"
    /\ ret' = [out |-> formatDuration(config.Walltime), err |-> NoError]
    /\ pc' = "formatted"
    /\ UNCHANGED << args, file, path, requested, batchSystem, config, lookups, calls, stdout, exit >>

NextDuration == FormatWalltime

SpecDuration == InitDuration /\ [][NextDuration]_vars

(***************************************************************************)
(* Vocabulary of the properties.                                           *)
(***************************************************************************)
\* The lines of a text: the runs of atoms that NL terminates.
RECURSIVE SplitAcc(_, _, _)
SplitAcc(text, cur, acc) ==
    IF Len(text) = 0 THEN (IF cur = <<>> THEN acc ELSE Append(acc, cur))
    ELSE IF Head(text) = NL THEN SplitAcc(Tail(text), <<>>, Append(acc, cur))
    ELSE SplitAcc(Tail(text), Append(cur, Head(text)), acc)

SplitLines(text) == SplitAcc(text, <<>>, <<>>)

KnownKinds == { BatchPBS, BatchSlurm, BatchBare }

Returned == pc = "returned"

Rendered == Returned /\ ret.err = NoError

\* The task line of a rendered script: the line before the post-script lines.
TaskLine ==
    LET ls == SplitLines(ret.out)
    IN  ls[Len(ls) - Len(config.PostScript)]

LauncherAtom == "time mpirun -n "

\* The literal atoms of the scheduler directives.
DirectiveAtoms ==
    ({ PBSTemplate[i] : i \in 1..Len(PBSTemplate) }
       \cup { SlurmTemplate[i] : i \in 1..Len(SlurmTemplate) })
    \ (FieldActions \cup { "#!/bin/bash -l", NL })

Atoms(text) == { text[i] : i \in 1..Len(text) }

(***************************************************************************)
(* C1.  JobData with a batch-system kind that is not pbs, slurm or bare    *)
(* returns an error and empty output.  The switch of JobData has no        *)
(* default case, so the code returns a script without a header and no      *)
(* error: the statement below is violated.                                 *)
(***************************************************************************)
C1_UnknownKindRejected ==
    (Returned /\ batchSystem \notin KnownKinds)
        => (ret.err # NoError /\ ret.out = <<>>)

(***************************************************************************)
(* C2.  run() writes script text only after decoding, resolution and       *)
(* rendering have all succeeded.  In every state: if anything is on        *)
(* standard output then the file decoded, the resolved kind is not         *)
(* Unsupported, JobData was called once and returned no error, and the     *)
(* output is its whole result; a run that failed has written nothing; and  *)
(* JobData is never called with Unsupported.                               *)
(***************************************************************************)
C2_OutputOnlyAfterSuccess ==
    /\ stdout # <<>> =>
          /\ pc = "exit0"
          /\ file.ok
          /\ batchSystem # BatchUnsupported
          /\ calls = << batchSystem >>
          /\ ret.err = NoError
          /\ stdout = ret.out \o <<NL>>
    /\ pc \in { "fatal", "exit1" } => (stdout = <<>> /\ exit # NoError)
    /\ (pc \notin { "parse", "decode" } /\ ~file.ok) => pc \in { "fatal", "exit1" }
    /\ (pc \in { "render", "print", "exit0" }) => batchSystem # BatchUnsupported
    /\ \A i \in 1..Len(calls) : calls[i] # BatchUnsupported
    /\ ret.err # NoError => (pc \in { "fatal", "exit1" } /\ ret.out = <<>>)
    /\ pc = "exit0" => (exit = NoError /\ stdout # <<>>)

\* A run whose rendering failed: it ended with an error and wrote nothing.
C2_Witness ==
    /\ pc = "exit1"
    /\ Len(calls) = 1
    /\ ret.err # NoError
    /\ exit = Wrap("getting job data", ret.err)
    /\ stdout = <<>>

(***************************************************************************)
(* C3.  The rendered task line contains the launcher segment exactly when  *)
(* ranksPerNode > 0, for every kind; with ranksPerNode = 0 the line starts *)
(* with the runtime prefix, if there is one, or else with the executable.  *)
(***************************************************************************)
C3_LauncherIffRanks ==
    Rendered =>
        LET line == TaskLine
        IN  /\ (LauncherAtom \in Atoms(line)) <=> (config.NumberOfMPIRanksPerNode > 0)
            /\ config.NumberOfMPIRanksPerNode > 0 => line[1] = LauncherAtom
            /\ (config.NumberOfMPIRanksPerNode = 0 /\ Len(config.RunTime) > 0)
                  => (Len(line) > 0 /\ line[1] = config.RunTime[1])
            /\ (config.NumberOfMPIRanksPerNode = 0 /\ Len(config.RunTime) = 0
                  /\ config.Executable = "./sim")
                  => (Len(line) > 0 /\ line[1] = "./sim")

\* A script without ranks and one with ranks are both rendered; the witness
\* is the one without ranks, whose line starts with the executable.
C3_Witness ==
    /\ Rendered
    /\ config.NumberOfMPIRanksPerNode = 0
    /\ batchSystem = BatchPBS
    /\ Len(config.RunTime) = 0
    /\ Len(config.Arguments) = 0
    /\ TaskLine = << "./sim" >>

(***************************************************************************)
(* C4.  The end-to-end example rendered with kind bare.  As stated (the    *)
(* task line is exactly "./sim --fast") it fails: the example has          *)
(* ranksPerNode = 4, and the launcher is gated on ranksPerNode alone.      *)
(***************************************************************************)
ExampleBare == Returned /\ config = ExampleConfig /\ batchSystem = BatchBare

BeginsWithShebang == Len(ret.out) >= 2 /\ ret.out[1] = "#!/bin/bash -l" /\ ret.out[2] = NL

C4_ExampleBareNoWrapper ==
    ExampleBare =>
        /\ ret.err = NoError
        /\ BeginsWithShebang
        /\ Atoms(ret.out) \cap DirectiveAtoms = {}
        /\ TaskLine = << "./sim", SP, "--fast" >>

\* C4 as amended: the output begins with the shebang line, has no #PBS or
\* #SBATCH directive, and its task line is "time mpirun -n 8 ./sim --fast".
C4_ExampleBareWithLauncher ==
    ExampleBare =>
        /\ ret.err = NoError
        /\ BeginsWithShebang
        /\ Atoms(ret.out) \cap DirectiveAtoms = {}
        /\ TaskLine = << LauncherAtom, "8", SP, "./sim", SP, "--fast" >>

C4_Witness == ExampleBare /\ ret.err = NoError /\ Len(ret.out) > 2

(***************************************************************************)
(* C5.  The probe runs only when the -b flag is the Autodetect sentinel.   *)
(* With any other flag value no LookPath call is ever made, the kind is    *)
(* left as requested, and JobData, when called, gets the requested value.  *)
(***************************************************************************)
C5_ExplicitKindNeverProbed ==
    /\ lookups # <<>> => requested = BatchAutodetect
    /\ requested # BatchAutodetect =>
          /\ lookups = <<>>
          /\ batchSystem = requested
          /\ \A i \in 1..Len(calls) : calls[i] = requested

\* Slurm requested on a host that has the PBS tool: rendered as Slurm.
C5_Witness ==
    /\ requested = BatchSlurm
    /\ "qsub" \in path
    /\ calls = << BatchSlurm >>
    /\ lookups = <<>>
    /\ pc = "exit0"

(***************************************************************************)
(* C6.  Resolution order of the autodetection.  As stated (both tools      *)
(* absent gives Bare) it fails: after qsub and squeue the code probes      *)
(* bash, and without bash the result is Unsupported.                       *)
(***************************************************************************)
Resolved ==
    requested = BatchAutodetect
    /\ pc \in { "check", "render", "print", "fatal", "exit0", "exit1" }
    /\ file.ok /\ Len(args) > 0

C6_BothAbsentIsBare ==
    Resolved =>
        /\ "qsub" \in path => (batchSystem = BatchPBS /\ lookups = << "qsub" >>)
        /\ ("qsub" \notin path /\ "squeue" \in path)
              => (batchSystem = BatchSlurm /\ lookups[1] = "qsub" /\ lookups[2] = "squeue")
        /\ ("qsub" \notin path /\ "squeue" \notin path) => batchSystem = BatchBare
        /\ \A i \in 1..Len(calls) :
              calls[i] \in { BatchPBS, BatchSlurm, BatchBare, BatchUnsupported }

\* C6 as amended: qsub is probed first and alone decides PBS; squeue is
\* probed only when qsub is absent and then decides Slurm; bash is probed
\* only when both are absent and decides between Bare and Unsupported.
\* Each tool is probed at most once, the kind is not "autodetect" once
\* resolved, and the kind handed to JobData is the resolved one.
C6_ProbeOrder ==
    /\ requested = BatchAutodetect =>
          /\ lookups \in { <<>>, << "qsub" >>, << "qsub", "squeue" >>,
                           << "qsub", "squeue", "bash" >> }
          /\ \A i \in 1..Len(calls) :
                calls[i] \in { BatchPBS, BatchSlurm, BatchBare, BatchUnsupported }
    /\ Resolved =>
          /\ "qsub" \in path => (batchSystem = BatchPBS /\ lookups = << "qsub" >>)
          /\ ("qsub" \notin path /\ "squeue" \in path)
                => (batchSystem = BatchSlurm /\ lookups = << "qsub", "squeue" >>)
          /\ ("qsub" \notin path /\ "squeue" \notin path)
                => /\ lookups = << "qsub", "squeue", "bash" >>
                   /\ batchSystem = IF "bash" \in path THEN BatchBare
                                    ELSE BatchUnsupported
          /\ batchSystem # BatchAutodetect
          /\ \A i \in 1..Len(calls) : calls[i] = batchSystem

\* Autodetection on a host with neither scheduler tool nor bash.
C6_Witness ==
    /\ requested = BatchAutodetect
    /\ path = {}
    /\ lookups = << "qsub", "squeue", "bash" >>
    /\ batchSystem = BatchUnsupported
    /\ pc = "exit1"

(***************************************************************************)
(* The body of a rendered script and the groups it is made of, written     *)
(* from the job description alone.                                         *)
(***************************************************************************)
\* The concatenation of a sequence of texts.
RECURSIVE Flatten(_)
Flatten(ss) == IF Len(ss) = 0 THEN <<>> ELSE Head(ss) \o Flatten(Tail(ss))

HeaderText == writeSelectedHeader(config, batchSystem, <<>>).builder

Body == SubSeq(ret.out, Len(HeaderText) + 1, Len(ret.out))

VerbatimGroup(cmds) == Flatten([i \in 1..Len(cmds) |-> Str(cmds[i]) \o <<NL>>])

ModulePreGroup == VerbatimGroup(config.ModulesPreScript)

ModuleLoadGroup ==
    Flatten([i \in 1..Len(config.LoadModules) |->
                << "module load " >> \o Str(config.LoadModules[i]) \o <<NL>>])

PreGroup == VerbatimGroup(config.PreScript)

CdGroup == IF config.WorkingDirectory = "" THEN <<>>
           ELSE << "cd ", config.WorkingDirectory, NL >>

TaskGroup == TaskLine \o <<NL>>

PostGroup == VerbatimGroup(config.PostScript)

\* What may stand between two groups: nothing or one blank line.
BlankRuns == { <<>>, <<NL>> }

(***************************************************************************)
(* C7.  The body is the six groups in the fixed order: module pre-script   *)
(* lines, one "module load" line per module, pre-script lines, the cd line *)
(* if any, the task line, the post-script lines; every entry once and in   *)
(* input order, with nothing but blank lines between the groups.  The      *)
(* script lines are verbatim: an action in one of them is left as it is.   *)
(***************************************************************************)
C7_GroupOrder ==
    Rendered =>
        LET header == HeaderText
            body == SubSeq(ret.out, Len(header) + 1, Len(ret.out))
            g1 == ModulePreGroup
            g2 == ModuleLoadGroup
            g3 == PreGroup
            g4 == CdGroup
            g5 == TaskGroup
            g6 == PostGroup
        IN  /\ SubSeq(ret.out, 1, Len(header)) = header
            /\ \E s1 \in BlankRuns, s2 \in BlankRuns, s3 \in BlankRuns,
                  s4 \in BlankRuns, s5 \in BlankRuns :
                  body = g1 \o s1 \o g2 \o s2 \o g3 \o s3 \o g4 \o s4 \o g5 \o s5 \o g6
            /\ config.Executable = "./sim" => "./sim" \in Atoms(g5)

\* A script in which every group has two entries, where it has entries.
C7_Witness ==
    /\ Rendered
    /\ Len(config.ModulesPreScript) = 2 /\ Len(config.LoadModules) = 2
    /\ Len(config.PreScript) = 2 /\ Len(config.PostScript) = 2
    /\ config.WorkingDirectory # ""
    /\ batchSystem = BatchSlurm

(***************************************************************************)
(* C8.  Blank lines of the body.  As stated (one blank line between each   *)
(* pair of adjacent non-empty groups and only there, so also between the   *)
(* task line and a non-empty post-script) it fails: the code writes the    *)
(* blank line after each of the first four groups whether or not the group *)
(* is empty, and none after the task line.                                 *)
(***************************************************************************)
NonEmptyGroups ==
    SelectSeq(<< ModulePreGroup, ModuleLoadGroup, PreGroup, CdGroup, TaskGroup, PostGroup >>,
              LAMBDA g : g # <<>>)

C8_BlankOnlyBetweenNonEmpty ==
    Rendered => Body = Join(NonEmptyGroups, <<NL>>)

\* C8 as amended: exactly one blank line follows each of the module
\* pre-script, module-load, pre-script and cd groups, empty or not, and the
\* post-script follows the task line directly.
C8_BlankAfterEachOfFour ==
    Rendered =>
        Body = ModulePreGroup \o <<NL>> \o ModuleLoadGroup \o <<NL>> \o PreGroup \o <<NL>>
                  \o CdGroup \o <<NL>> \o TaskGroup \o PostGroup

\* A script with all four leading groups empty and a post-script.
C8_Witness ==
    /\ Rendered
    /\ config.ModulesPreScript = <<>> /\ config.LoadModules = <<>>
    /\ config.PreScript = <<>> /\ config.WorkingDirectory = ""
    /\ Len(config.PostScript) > 0
    /\ SubSeq(Body, 1, 4) = << NL, NL, NL, NL >>

(***************************************************************************)
(* C9.  Between the pre-script group and the task line the assembler       *)
(* writes no cd line when workingDirectory is empty and exactly one,       *)
(* "cd <workingDirectory>", when it is not; there is none elsewhere.       *)
(* (No configured line of the explored inputs is itself a cd command.)     *)
(***************************************************************************)
BodyLines == SplitLines(Body)

\* The number of body lines up to the end of the pre-script group.
PreambleEnd ==
    Len(config.ModulesPreScript) + 1 + Len(config.LoadModules) + 1
        + Len(config.PreScript) + 1

IsCd(line) == Len(line) >= 1 /\ line[1] = "cd "

C9_CdLineOnce ==
    Rendered =>
        LET lines == BodyLines
            cds == { i \in 1..Len(lines) : IsCd(lines[i]) }
            task == Len(lines) - Len(config.PostScript)
        IN  /\ config.WorkingDirectory = "" => cds = {}
            /\ config.WorkingDirectory # "" =>
                  /\ Cardinality(cds) = 1
                  /\ \A i \in cds :
                        /\ PreambleEnd < i /\ i < task
                        /\ lines[i] = << "cd ", config.WorkingDirectory >>

C9_Witness ==
    /\ Rendered
    /\ config.WorkingDirectory = "/scratch"
    /\ Len(config.PreScript) = 2
    /\ BodyLines[PreambleEnd + 1] = << "cd ", "/scratch" >>

(***************************************************************************)
(* C10.  The whole assembled task line is substituted as a template: a     *)
(* field reference in the prefix or the arguments is replaced by the       *)
(* field's value, and no action is left in the line.  When the line does   *)
(* not parse or does not execute, JobData returns the task-line error,     *)
(* which is none of the header errors, and empty output.                   *)
(***************************************************************************)
Subst(str) ==
    IF str = "{{.NumberOfMPIRanks}}"
    THEN Itoa(config.NumberOfNodes * config.NumberOfMPIRanksPerNode)
    ELSE IF str = "{{.Name}}" THEN Str(config.Name)
    ELSE Str(str)

SubstAll(strs) == Join([i \in 1..Len(strs) |-> Subst(strs[i])], <<SP>>)

\* The line after the launcher: prefix, executable and arguments with their
\* field references replaced, joined by single spaces.
ExpectedTail ==
    Join((IF Len(config.RunTime) = 0 THEN <<>> ELSE << SubstAll(config.RunTime) >>)
            \o << Subst(config.Executable) >>
            \o (IF Len(config.Arguments) = 0 THEN <<>>
                ELSE << SubstAll(config.Arguments) >>),
         <<SP>>)

TaskStrings ==
    { config.Executable }
       \cup { config.RunTime[i] : i \in 1..Len(config.RunTime) }
       \cup { config.Arguments[i] : i \in 1..Len(config.Arguments) }

BadTask == TaskStrings \cap (MalformedActions \cup UnknownFieldActions) # {}

HeaderErrors == { "write PBS header", "write Slurm header", "write bare header" }

C10_TaskLineTemplate ==
    Returned =>
        /\ BadTask <=> ret.err # NoError
        /\ BadTask =>
              /\ ret.out = <<>>
              /\ ret.err[1] = "exec task string template"
              /\ ret.err[1] \notin HeaderErrors
              /\ ret.err[2] = IF TaskStrings \cap MalformedActions # {}
                              THEN "parse template" ELSE "execute template"
        /\ ~BadTask =>
              LET line == TaskLine
              IN  /\ Atoms(line) \cap (FieldActions \cup UnknownFieldActions
                                          \cup MalformedActions) = {}
                  /\ Len(line) >= Len(ExpectedTail)
                  /\ SubSeq(line, Len(line) - Len(ExpectedTail) + 1, Len(line))
                        = ExpectedTail

\* A job whose executable does not parse, asked for with a kind that has a
\* header: the header is discarded and the task-line error returned.
C10_Witness ==
    /\ Returned
    /\ config.Executable = "{{"
    /\ batchSystem = BatchPBS
    /\ Len(config.PreScript) > 0
    /\ ret = [out |-> <<>>, err |-> << "exec task string template", "parse template" >>]

(***************************************************************************)
(* The header fields written from the job description alone.               *)
(***************************************************************************)
ExpectedLogFile(ext) ==
    (IF config.LogDirectory = "" THEN <<>> ELSE << config.LogDirectory, "/" >>)
        \o Str(config.Name) \o << ext >>

\* The walltime texts of the explored walltimes, digit by digit.
ExpectedWalltime ==
    CASE config.Walltime = 0 -> << "0", "0", ":", "0", "0", ":", "0", "0" >>
      [] config.Walltime = 3661 * Second -> << "0", "1", ":", "0", "1", ":", "0", "1" >>
      [] config.Walltime = 90000 * Second -> << "2", "5", ":", "0", "0", ":", "0", "0" >>

StartsWith(text, prefix) ==
    Len(text) >= Len(prefix) /\ SubSeq(text, 1, Len(prefix)) = prefix

(***************************************************************************)
(* C11.  The PBS header is, in order: shebang, -N name, -e error file,     *)
(* -o output file, -m abe, -M email, one -l select directive with the four *)
(* sub-clauses (node count, node type, ranks per node, threads), the       *)
(* walltime directive, and a blank line.  Every sub-clause is written even *)
(* for 0 and for the empty string.  For the example the header has         *)
(* mpiprocs=4, ompthreads=2 and walltime=01:01:01.                         *)
(***************************************************************************)
ExpectedPBSHeader ==
    << "#!/bin/bash -l", NL, "#PBS -N " >> \o Str(config.Name)
       \o << NL, "#PBS -e " >> \o ExpectedLogFile(".err")
       \o << NL, "#PBS -o " >> \o ExpectedLogFile(".out")
       \o << NL, "#PBS -m abe", NL, "#PBS -M " >> \o Str(config.Email)
       \o << NL, "#PBS -l select=" >> \o Itoa(config.NumberOfNodes)
       \o << ":node_type=" >> \o Str(config.NodeType)
       \o << ":mpiprocs=" >> \o Itoa(config.NumberOfMPIRanksPerNode)
       \o << ":ompthreads=" >> \o Itoa(config.NumberOfOMPThreadsPerProcess)
       \o << NL, "#PBS -l walltime=" >> \o ExpectedWalltime
       \o << NL, NL >>

ExamplePBSHeader ==
    << "#!/bin/bash -l", NL, "#PBS -N ", "run1", NL,
       "#PBS -e ", "run1", ".err", NL, "#PBS -o ", "run1", ".out", NL,
       "#PBS -m abe", NL, "#PBS -M ", NL,
       "#PBS -l select=", "2", ":node_type=", ":mpiprocs=", "4", ":ompthreads=", "2", NL,
       "#PBS -l walltime=", "0", "1", ":", "0", "1", ":", "0", "1", NL, NL >>

C11_PBSHeader ==
    (Returned /\ batchSystem = BatchPBS) =>
        /\ ret.err = NoError
        /\ StartsWith(ret.out, ExpectedPBSHeader)
        /\ config = ExampleConfig => StartsWith(ret.out, ExamplePBSHeader)

\* A PBS header whose sub-clauses are all zero or empty.
C11_Witness ==
    /\ Returned /\ batchSystem = BatchPBS
    /\ config.NumberOfNodes = 0 /\ config.NodeType = ""
    /\ config.NumberOfMPIRanksPerNode = 0 /\ config.NumberOfOMPThreadsPerProcess = 0
    /\ config.Walltime = 0 /\ config.Email = "" /\ config.Name = ""
    /\ StartsWith(ret.out, << "#!/bin/bash -l", NL, "#PBS -N ", NL >>)

(***************************************************************************)
(* C12.  The Slurm header is, in order: shebang, job name, output file,    *)
(* error file, mail-type=ALL, mail-user, node count, tasks per node, time, *)
(* and a blank line; the tasks-per-node value is 1 whatever the ranks per  *)
(* node are.                                                               *)
(***************************************************************************)
ExpectedSlurmHeader ==
    << "#!/bin/bash -l", NL, "#SBATCH -J " >> \o Str(config.Name)
       \o << NL, "#SBATCH -o " >> \o ExpectedLogFile(".out")
       \o << NL, "#SBATCH -e " >> \o ExpectedLogFile(".err")
       \o << NL, "#SBATCH --mail-type=ALL", NL, "#SBATCH --mail-user=" >>
       \o Str(config.Email)
       \o << NL, "#SBATCH --nodes " >> \o Itoa(config.NumberOfNodes)
       \o << NL, "#SBATCH --ntasks-per-node ", "1" >>
       \o << NL, "#SBATCH --time=" >> \o ExpectedWalltime
       \o << NL, NL >>

C12_SlurmHeader ==
    (Returned /\ batchSystem = BatchSlurm) =>
        /\ ret.err = NoError
        /\ StartsWith(ret.out, ExpectedSlurmHeader)
        /\ NewExtendedConfig(config).NumberOfTasksPerNode = 1

\* A Slurm header for a job with two ranks per node: still one task per node.
C12_Witness ==
    /\ Returned /\ batchSystem = BatchSlurm
    /\ config.NumberOfMPIRanksPerNode = 2
    /\ config.NumberOfNodes = 2
    /\ \E i \in 1..Len(ret.out) - 1 :
          ret.out[i] = "#SBATCH --ntasks-per-node " /\ ret.out[i + 1] = "1"

(***************************************************************************)
(* C13.  The derived total rank count is nodeCount x ranksPerNode, zero    *)
(* when either factor is zero, and it is the count the launcher carries    *)
(* after -n whenever the launcher is written.                              *)
(***************************************************************************)
\* The product as a repeated sum.
RECURSIVE Times(_, _)
Times(a, b) == IF b = 0 THEN 0 ELSE a + Times(a, b - 1)

ExpectedTotalRanks == Times(config.NumberOfNodes, config.NumberOfMPIRanksPerNode)

EndsWith(text, suffix) ==
    Len(text) >= Len(suffix)
    /\ SubSeq(text, Len(text) - Len(suffix) + 1, Len(text)) = suffix

C13_TotalRanks ==
    Rendered =>
        LET line == TaskLine
        IN  /\ NewExtendedConfig(config).NumberOfMPIRanks = ExpectedTotalRanks
            /\ (config.NumberOfNodes = 0 \/ config.NumberOfMPIRanksPerNode = 0)
                  => NewExtendedConfig(config).NumberOfMPIRanks = 0
            /\ config.NumberOfMPIRanksPerNode > 0 =>
                  StartsWith(line, << LauncherAtom >> \o Itoa(ExpectedTotalRanks)
                                      \o << SP, "./sim" >>)
            /\ config.Arguments = << "{{.NumberOfMPIRanks}}" >> =>
                  EndsWith(line, << "./sim", SP >> \o Itoa(ExpectedTotalRanks))

\* No nodes and two ranks per node: the launcher is written and carries 0.
C13_Witness ==
    /\ Rendered
    /\ config.NumberOfNodes = 0 /\ config.NumberOfMPIRanksPerNode = 2
    /\ TaskLine = << LauncherAtom, "0", SP, "./sim", SP, "0" >>

(***************************************************************************)
(* C14.  formatDuration of a non-negative duration: with T the duration    *)
(* rounded to the nearest second, halves up, the text is HH:MM:SS with     *)
(* hours T div 3600 in at least two digits and not wrapped, minutes        *)
(* (T mod 3600) div 60 and seconds T mod 60 in exactly two digits, both in *)
(* 00..59; 3661 s gives 01:01:01 and 90000 s gives 25:00:00; and the       *)
(* duration that the text denotes formats to the same text.                *)
(***************************************************************************)
Formatted == pc = "formatted"

\* The whole seconds nearest to d milliseconds, halves up.
NearestSecond(d) == IF d % 1000 >= 500 THEN d \div 1000 + 1 ELSE d \div 1000

TwoDigits(n) == << Digit(n \div 10), Digit(n % 10) >>

DigitValue(a) == CHOOSE v \in 0..9 : Digit(v) = a

RECURSIVE ParseNumber(_)
ParseNumber(digits) ==
    IF Len(digits) = 0 THEN 0
    ELSE 10 * ParseNumber(SubSeq(digits, 1, Len(digits) - 1))
            + DigitValue(digits[Len(digits)])

\* The duration that a text of the form H..H:MM:SS denotes.
ParseHMS(text) ==
    LET colons == { i \in 1..Len(text) : text[i] = ":" }
        c1 == CHOOSE i \in colons : \A j \in colons : i <= j
        c2 == CHOOSE i \in colons : \A j \in colons : j <= i
    IN  ParseNumber(SubSeq(text, 1, c1 - 1)) * Hour
           + ParseNumber(SubSeq(text, c1 + 1, c2 - 1)) * Minute
           + ParseNumber(SubSeq(text, c2 + 1, Len(text))) * Second

C14_FormatDuration ==
    Formatted =>
        LET T == NearestSecond(config.Walltime)
            h == T \div 3600
            m == (T % 3600) \div 60
            sec == T % 60
            text == ret.out
        IN  /\ text = (IF h < 100 THEN TwoDigits(h) ELSE Itoa(h))
                         \o << ":" >> \o TwoDigits(m) \o << ":" >> \o TwoDigits(sec)
            /\ Len(text) >= 8
            /\ Cardinality({ i \in 1..Len(text) : text[i] = ":" }) = 2
            /\ text[Len(text) - 2] = ":" /\ text[Len(text) - 5] = ":"
            /\ ParseNumber(SubSeq(text, Len(text) - 4, Len(text) - 3)) \in 0..59
            /\ ParseNumber(SubSeq(text, Len(text) - 1, Len(text))) \in 0..59
            /\ config.Walltime = 3661 * Second
                  => text = << "0", "1", ":", "0", "1", ":", "0", "1" >>
            /\ config.Walltime = 90000 * Second
                  => text = << "2", "5", ":", "0", "0", ":", "0", "0" >>
            /\ formatDuration(ParseHMS(text)) = text

\* 59.5 s rounds up to the full minute and the seconds go back to 00.
C14_Witness ==
    /\ Formatted
    /\ config.Walltime = 59 * Second + 500 * Millisecond
    /\ ret.out = << "0", "0", ":", "0", "1", ":", "0", "0" >>

(***************************************************************************)
(* C15.  JobData rejects a job description whose executable is the empty   *)
(* string: no script is produced for it.  JobData has no such test; it     *)
(* returns a script whose task line lacks the executable, so the statement *)
(* below is violated.                                                      *)
(***************************************************************************)
C15_EmptyExecutableRejected ==
    (Returned /\ config.Executable = "")
        => (ret.err # NoError /\ ret.out = <<>>)

====
